---- MODULE Spec2Model ----
(***************************************************************************)
(* Model of script.js: the bounded random-integer generator                *)
(* (getSecureRandomInt), pickRandomChar, the Fisher-Yates shuffle          *)
(* (shuffleArray), generatePassword, and the DOM wiring (the generate and  *)
(* copy click handlers with showTemporaryMessage).                         *)
(*                                                                         *)
(* Strings are sequences of one-character strings, so charAt, length,      *)
(* join('') and concatenation are the sequence operations.                 *)
(***************************************************************************)
EXTENDS Integers, Sequences, FiniteSets, TLC

\* ------------------------------------------------------------- bounds

\* Width of the random word in bits.  The program draws 32-bit words; the
\* model scales the word space down and keeps every formula in terms of it.
WordBits == 7

\* How many times one getSecureRandomInt call may reject a word and redraw.
MaxRedraws == 2

\* Longest password requested, longest array shuffled.
MaxLength == 4

\* The source's words are sampled at NumSamples + 1 evenly spaced values when
\* whole passwords are generated (the generator alone sees every word).
NumSamples == 2

\* Math.random() is sampled at k / FallbackRes, k in 0 .. FallbackRes - 1.
FallbackRes == 2

\* How many clipboard writes may be pending at once.
MaxAwaits == 2

\* ------------------------------------------------------ program constants

UPPER == << "A","B","C","D","E","F","G","H","I","J","K","L","M",
            "N","O","P","Q","R","S","T","U","V","W","X","Y","Z" >>

LOWER == << "a","b","c","d","e","f","g","h","i","j","k","l","m",
            "n","o","p","q","r","s","t","u","v","w","x","y","z" >>

NUMBERS == << "0","1","2","3","4","5","6","7","8","9" >>

\* The second character is the backquote, written as a token because a
\* TLA+ string cannot hold it.
SYMBOLS == << "~","BACKQUOTE","!","@","#","$","%","^","&","*","(",")","_","-","+",
              "=","{","}","[","]","|",":",";","<",">",".","?","/","," >>

\* const uint32Max = 0xffffffff, at the model's word width.
uint32Max == 2^WordBits - 1

\* The size of the word space, 2^32 in the program: a Uint32Array element
\* holds 0 .. uint32Max.
WordSpace == 2^WordBits

AllWords == 0 .. uint32Max

\* ------------------------------------------------ getSecureRandomInt

\* (variant: the bound not rounded down to a multiple of max)
boundMutNoFloor(max) == uint32Max

\* const bound = Math.floor(uint32Max / max) * max
bound(max) == (uint32Max \div max) * max

\* if (rand[0] < bound) ...
Accepts(max, w) == w < bound(max)

\* (variant: the remainder taken over one value too many)
ReduceMutInclusive(max, w) == w % (max + 1)

\* ... return rand[0] % max
Reduce(max, w) == w % max

\* return Math.floor(Math.random() * max), Math.random() = k / FallbackRes
Fallback(max, k) == (k * max) \div FallbackRes

\* The words getSecureRandomInt(max) accepts, and those it returns r for.
AcceptedWords(max) == { w \in AllWords : Accepts(max, w) }

WordsFor(max, r) == { w \in AcceptedWords(max) : Reduce(max, w) = r }

\* --------------------------------------------------------------- state

VARIABLES
    crypto,         \* window.crypto && window.crypto.getRandomValues
    entry,          \* the outermost call in progress or last made
    arg,            \* its argument(s)
    phase,          \* where the call stands
    word,           \* rand[0], the word last drawn by the running loop
    redraws,        \* how many words the running loop has rejected
    consumed,       \* whether the call has asked the source for a value
    length,         \* generatePassword: length
    pools,          \* generatePassword: pools
    result,         \* generatePassword: result; shuffleArray: array
    i,              \* shuffleArray: i
    ret,            \* the value the outermost call returned
    error,          \* the exception thrown inside the outermost call
    lengthValue,    \* parseInt(lengthInput.value, 10) || 0
    opts,           \* the four checkboxes' checked
    minAttr,        \* lengthInput.min
    maxAttr,        \* lengthInput.max
    passwordField,  \* passwordField.value
    alertMsg,       \* the text of the last alert
    generateBtn,    \* generateBtn: textContent, disabled
    copyBtn,        \* copyBtn: textContent, disabled
    timers,         \* pending setTimeout callbacks, in firing order
    awaits          \* clipboard writes not yet settled

rngVars == << word, redraws, consumed >>

genVars == << length, pools, result, i >>

domVars == << lengthValue, opts, minAttr, maxAttr, passwordField, alertMsg,
              generateBtn, copyBtn, timers, awaits >>

vars == << crypto, entry, arg, phase, word, redraws, consumed, length, pools,
           result, i, ret, error, lengthValue, opts, minAttr, maxAttr,
           passwordField, alertMsg, generateBtn, copyBtn, timers, awaits >>

\* JavaScript values a call hands back.
Undefined == [ type |-> "undefined" ]

NumberValue(v) == [ type |-> "number", value |-> v ]

StringValue(str) == [ type |-> "string", value |-> str ]

ArrayValue(a) == [ type |-> "array", value |-> a ]

NoError == "none"

\* new Error('Length too short for selected character types')
LengthError == "Length too short for selected character types"

\* What window.crypto.getRandomValues throws when it fails.
SourceError == "getRandomValues failed"

\* An attribute the page does not set reads as the empty string, which
\* `||` replaces by the default; a set one reads as its number.
NoAttr == {}

AttrOr(attr, default) == IF attr = NoAttr THEN default ELSE CHOOSE n \in attr : TRUE

\* lengthInput.min || '4', lengthInput.max || '128'
DefaultMin == 4

DefaultMax == 128

RangeAlert == "Please choose a length between min and max."

SelectAlert == "Please select at least one character type."

CopyFailedAlert == "Copy failed. Select the password and press Ctrl+C."

NoAlert == "no alert"

OptionSets == [ upper : BOOLEAN, lower : BOOLEAN, numbers : BOOLEAN,
                symbols : BOOLEAN ]

NoOptions == [ upper |-> FALSE, lower |-> FALSE, numbers |-> FALSE,
               symbols |-> FALSE ]

\* The buttons' labels in the page.
GenerateLabel == "Generate"

CopyLabel == "Copy"

DrawPhases == { "rand", "cover", "fill", "shuffle" }

Settled == { "idle", "returned", "thrown" }

\* ------------------------------------------------------------- helpers

\* str.charAt(v): the empty string outside the string.
charAt(str, v) == IF v + 1 \in 1 .. Len(str) THEN str[v + 1] ELSE ""

\* array.join(''): empty elements add nothing.
join(array) == SelectSeq(array, LAMBDA c : c # "")

\* pools.join('')
RECURSIVE joinPools(_)
joinPools(ps) == IF ps = << >> THEN << >> ELSE Head(ps) \o joinPools(Tail(ps))

\* [array[i], array[j]] = [array[j], array[i]], indices from 0
Swap(array, x, y) ==
    [ array EXCEPT ![x + 1] = array[y + 1], ![y + 1] = array[x + 1] ]

\* (variant: the naive shuffle, drawing over the whole array at every step)
ShuffleMaxMutNaive(array, ii) == Len(array)

\* shuffleArray: const j = getSecureRandomInt(i + 1)
ShuffleMax(array, ii) == ii + 1

\* (variant: the symbols checkbox ignored)
PoolsMutNoSymbols(o) ==
    (IF o.upper THEN << UPPER >> ELSE << >>)
    \o (IF o.lower THEN << LOWER >> ELSE << >>)
    \o (IF o.numbers THEN << NUMBERS >> ELSE << >>)

\* generatePassword: the pools pushed for the checked types, in order.
PoolsOf(o) ==
    (IF o.upper THEN << UPPER >> ELSE << >>)
    \o (IF o.lower THEN << LOWER >> ELSE << >>)
    \o (IF o.numbers THEN << NUMBERS >> ELSE << >>)
    \o (IF o.symbols THEN << SYMBOLS >> ELSE << >>)

\* shuffleArray(array) as a function of the values js its draws return, the
\* first for i = array.length - 1.
RECURSIVE ShuffleFrom(_, _, _)
ShuffleFrom(array, ii, js) ==
    IF ii > 0
      THEN ShuffleFrom(Swap(array, ii, Head(js)), ii - 1, Tail(js))
      ELSE array

shuffleArray(array, js) == ShuffleFrom(array, Len(array) - 1, js)

\* The argument of the getSecureRandomInt call the program is inside.
PendingMax ==
    CASE phase = "rand" -> arg.max
      [] phase = "cover" -> Len(pools[Len(result) + 1])
      [] phase = "fill" -> Len(joinPools(pools))
      [] phase = "shuffle" -> ShuffleMax(result, i)
      [] OTHER -> 0

\* showTemporaryMessage: the button while the message shows, and the
\* callback it schedules.
Shown(text) == [ textContent |-> text, disabled |-> TRUE ]

TimerFor(name, button) == [ button |-> name, original |-> button.textContent ]

\* The locals and outputs of the call in progress.
Locals(len, ps, res, ii) ==
    /\ length' = len
    /\ pools' = ps
    /\ result' = res
    /\ i' = ii

\* ----------------------------------------------------- leaving a call

\* (variant: the click handler showing what had been built when the
\* exception came)
ThrowsMutPartial(e, msg) ==
    /\ error' = msg
    /\ ret' = Undefined
    /\ IF e = "click"
         THEN /\ phase' = "idle"
              /\ alertMsg' = msg
              /\ passwordField' = join(result)
         ELSE /\ phase' = "thrown"
              /\ alertMsg' = alertMsg
              /\ passwordField' = passwordField
    /\ UNCHANGED << lengthValue, opts, minAttr, maxAttr, generateBtn, copyBtn,
                    timers, awaits >>

\* An exception leaves the outermost call; the click handler catches it
\* and alerts err.message.
Throws(e, msg) ==
    /\ error' = msg
    /\ ret' = Undefined
    /\ IF e = "click"
         THEN /\ phase' = "idle"
              /\ alertMsg' = msg
         ELSE /\ phase' = "thrown"
              /\ alertMsg' = alertMsg
    /\ UNCHANGED << lengthValue, opts, minAttr, maxAttr, passwordField,
                    generateBtn, copyBtn, timers, awaits >>

\* generatePassword returns str; the click handler shows it.
GenerateReturns(e, str) ==
    /\ error' = NoError
    /\ ret' = StringValue(str)
    /\ IF e = "click"
         THEN /\ phase' = "idle"
              /\ passwordField' = str
              /\ generateBtn' = Shown("Generated!")
              /\ timers' = Append(timers, TimerFor("generate", generateBtn))
         ELSE /\ phase' = "returned"
              /\ UNCHANGED << passwordField, generateBtn, timers >>
    /\ UNCHANGED << lengthValue, opts, minAttr, maxAttr, alertMsg, copyBtn,
                    awaits >>

\* shuffleArray returns array, to generatePassword or to the caller.
ShuffleReturns(e, len, ps, array) ==
    /\ Locals(len, ps, array, IF Len(array) = 0 THEN -1 ELSE 0)
    /\ IF e = "shuffle"
         THEN /\ phase' = "returned"
              /\ ret' = ArrayValue(array)
              /\ error' = NoError
              /\ UNCHANGED domVars
         ELSE GenerateReturns(e, join(array))

\* shuffleArray(array): for (let i = array.length - 1; i > 0; i--)
ShuffleBegins(e, len, ps, array) ==
    IF Len(array) - 1 > 0
      THEN /\ Locals(len, ps, array, Len(array) - 1)
           /\ phase' = "shuffle"
           /\ ret' = Undefined
           /\ error' = NoError
           /\ UNCHANGED domVars
      ELSE ShuffleReturns(e, len, ps, array)

\* After a push: the rest of pools.forEach, then the fill loop, then the
\* shuffle.
AfterPush(e, len, ps, res) ==
    IF Len(res) < Len(ps)
      THEN /\ Locals(len, ps, res, 0)
           /\ phase' = "cover"
           /\ ret' = Undefined
           /\ error' = NoError
           /\ UNCHANGED domVars
      ELSE IF Len(res) < len
        THEN /\ Locals(len, ps, res, 0)
             /\ phase' = "fill"
             /\ ret' = Undefined
             /\ error' = NoError
             /\ UNCHANGED domVars
        ELSE ShuffleBegins(e, len, ps, res)

\* (variant: an empty selection treated as an error)
generatePasswordMutEmptyThrows(e, len, o) ==
    LET ps == PoolsOf(o) IN
    IF Len(ps) = 0 \/ len < Len(ps)
      THEN /\ Locals(len, ps, << >>, 0)
           /\ Throws(e, LengthError)
      ELSE AfterPush(e, len, ps, << >>)

\* (variant: the length test left out)
generatePasswordMutLateCheck(e, len, o) ==
    LET ps == PoolsOf(o) IN
    IF Len(ps) = 0
      THEN /\ Locals(len, ps, << >>, 0)
           /\ GenerateReturns(e, << >>)
      ELSE AfterPush(e, len, ps, << >>)

\* generatePassword(length, { upper, lower, numbers, symbols }) up to its
\* first random draw.
generatePassword(e, len, o) ==
    LET ps == PoolsOf(o) IN
    IF Len(ps) = 0
      THEN /\ Locals(len, ps, << >>, 0)
           /\ GenerateReturns(e, << >>)
      ELSE IF len < Len(ps)
        THEN /\ Locals(len, ps, << >>, 0)
             /\ Throws(e, LengthError)
        ELSE AfterPush(e, len, ps, << >>)

\* getSecureRandomInt hands v back to the code that called it.
Resume(v) ==
    CASE phase = "rand" ->
           /\ phase' = "returned"
           /\ ret' = NumberValue(v)
           /\ error' = NoError
           /\ UNCHANGED << genVars, domVars >>
      [] phase = "cover" ->
           AfterPush(entry, length, pools,
                     Append(result, charAt(pools[Len(result) + 1], v)))
      [] phase = "fill" ->
           AfterPush(entry, length, pools,
                     Append(result, charAt(joinPools(pools), v)))
      [] phase = "shuffle" ->
           IF i - 1 > 0
             THEN /\ Locals(length, pools, Swap(result, i, v), i - 1)
                  /\ UNCHANGED << phase, ret, error, domVars >>
             ELSE ShuffleReturns(entry, length, pools, Swap(result, i, v))

\* ------------------------------------------------------------- actions

NoCallRunning == phase \in Settled

FreshFrame ==
    /\ word' = 0
    /\ redraws' = 0
    /\ consumed' = FALSE

\* A direct call getSecureRandomInt(max), made once the page has loaded.
CallRand(max) ==
    /\ phase = "idle"
    /\ entry' = "rand"
    /\ arg' = [ max |-> max ]
    /\ FreshFrame
    /\ Locals(0, << >>, << >>, 0)
    /\ error' = NoError
    /\ IF max <= 0
         THEN phase' = "returned" /\ ret' = NumberValue(0)
         ELSE phase' = "rand" /\ ret' = Undefined
    /\ UNCHANGED << crypto, domVars >>

\* A direct call shuffleArray(array).
CallShuffle(array) ==
    /\ phase = "idle"
    /\ entry' = "shuffle"
    /\ arg' = [ array |-> array ]
    /\ FreshFrame
    /\ ShuffleBegins("shuffle", 0, << >>, array)
    /\ UNCHANGED crypto

\* A direct call generatePassword(len, o).
CallGenerate(len, o) ==
    /\ phase = "idle"
    /\ entry' = "generate"
    /\ arg' = [ length |-> len, opts |-> o ]
    /\ FreshFrame
    /\ generatePassword("generate", len, o)
    /\ UNCHANGED crypto

\* The running getSecureRandomInt call draws a word from window.crypto and
\* returns or loops.
Draw(Ws) ==
    /\ phase \in DrawPhases
    /\ crypto
    /\ \E w \in Ws :
         IF Accepts(PendingMax, w)
           THEN /\ Resume(Reduce(PendingMax, w))
                /\ IF phase = "rand"
                     THEN word' = w /\ redraws' = redraws
                     ELSE word' = 0 /\ redraws' = 0
           ELSE /\ redraws < MaxRedraws
                /\ word' = w
                /\ redraws' = redraws + 1
                /\ UNCHANGED << phase, ret, error, genVars, domVars >>
    /\ consumed' = TRUE
    /\ UNCHANGED << crypto, entry, arg >>

\* window.crypto.getRandomValues throws.
SourceRaises ==
    /\ phase \in DrawPhases
    /\ crypto
    /\ Throws(entry, SourceError)
    /\ consumed' = TRUE
    /\ UNCHANGED << crypto, entry, arg, word, redraws, genVars >>

\* Without window.crypto: Math.floor(Math.random() * max).
FallbackDraw ==
    /\ phase \in DrawPhases
    /\ ~crypto
    /\ \E k \in 0 .. FallbackRes - 1 : Resume(Fallback(PendingMax, k))
    /\ consumed' = TRUE
    /\ UNCHANGED << crypto, entry, arg, word, redraws >>

\* The user edits the length field and the checkboxes.
UserInput(len, o) ==
    /\ NoCallRunning
    /\ lengthValue' = len
    /\ opts' = o
    /\ UNCHANGED << crypto, entry, arg, phase, rngVars, genVars, ret, error,
                    minAttr, maxAttr, passwordField, alertMsg, generateBtn,
                    copyBtn, timers, awaits >>

\* generateBtn's click listener, up to the first random draw.  A disabled
\* button gets no click; window's load listener clicks it once as well.
ClickGenerate ==
    /\ NoCallRunning
    /\ ~generateBtn.disabled
    /\ entry' = "click"
    /\ arg' = [ length |-> lengthValue, opts |-> opts ]
    /\ FreshFrame
    /\ IF \/ lengthValue < AttrOr(minAttr, DefaultMin)
          \/ lengthValue > AttrOr(maxAttr, DefaultMax)
         THEN /\ alertMsg' = RangeAlert
              /\ phase' = "idle"
              /\ ret' = Undefined
              /\ error' = NoError
              /\ UNCHANGED << genVars, lengthValue, opts, minAttr, maxAttr,
                              passwordField, generateBtn, copyBtn, timers,
                              awaits >>
         ELSE IF ~opts.upper /\ ~opts.lower /\ ~opts.numbers /\ ~opts.symbols
           THEN /\ alertMsg' = SelectAlert
                /\ phase' = "idle"
                /\ ret' = Undefined
                /\ error' = NoError
                /\ UNCHANGED << genVars, lengthValue, opts, minAttr, maxAttr,
                                passwordField, generateBtn, copyBtn, timers,
                                awaits >>
           ELSE generatePassword("click", lengthValue, opts)
    /\ UNCHANGED crypto

\* Copy operations under way: awaiting the clipboard, or showing a message.
CopiesInFlight ==
    awaits + Len(SelectSeq(timers, LAMBDA t : t.button = "copy"))

\* copyBtn's click listener up to its await.
ClickCopy ==
    /\ NoCallRunning
    /\ ~copyBtn.disabled
    /\ CopiesInFlight < MaxAwaits
    /\ IF passwordField = << >>
         THEN /\ copyBtn' = Shown("No password")
              /\ timers' = Append(timers, TimerFor("copy", copyBtn))
              /\ UNCHANGED awaits
         ELSE /\ awaits' = awaits + 1
              /\ UNCHANGED << copyBtn, timers >>
    /\ UNCHANGED << crypto, entry, arg, phase, rngVars, genVars, ret, error,
                    lengthValue, opts, minAttr, maxAttr, passwordField,
                    alertMsg, generateBtn >>

\* navigator.clipboard.writeText resolves: the listener resumes.
ClipboardResolves ==
    /\ NoCallRunning
    /\ awaits > 0
    /\ awaits' = awaits - 1
    /\ copyBtn' = Shown("Copied!")
    /\ timers' = Append(timers, TimerFor("copy", copyBtn))
    /\ UNCHANGED << crypto, entry, arg, phase, rngVars, genVars, ret, error,
                    lengthValue, opts, minAttr, maxAttr, passwordField,
                    alertMsg, generateBtn >>

\* navigator.clipboard.writeText rejects: the catch block's fallback, where
\* document.execCommand('copy') works or throws.
ClipboardRejects ==
    /\ NoCallRunning
    /\ awaits > 0
    /\ awaits' = awaits - 1
    /\ \E execCommandWorks \in BOOLEAN :
         IF execCommandWorks
           THEN /\ copyBtn' = Shown("Copied!")
                /\ timers' = Append(timers, TimerFor("copy", copyBtn))
                /\ UNCHANGED alertMsg
           ELSE /\ alertMsg' = CopyFailedAlert
                /\ UNCHANGED << copyBtn, timers >>
    /\ UNCHANGED << crypto, entry, arg, phase, rngVars, genVars, ret, error,
                    lengthValue, opts, minAttr, maxAttr, passwordField,
                    generateBtn >>

\* The oldest setTimeout callback runs (every delay is the same 1400 ms).
TimerFires ==
    /\ NoCallRunning
    /\ timers # << >>
    /\ LET t == Head(timers)
           restored == [ textContent |-> t.original, disabled |-> FALSE ]
       IN  /\ generateBtn' = IF t.button = "generate" THEN restored ELSE generateBtn
           /\ copyBtn' = IF t.button = "copy" THEN restored ELSE copyBtn
    /\ timers' = Tail(timers)
    /\ UNCHANGED << crypto, entry, arg, phase, rngVars, genVars, ret, error,
                    lengthValue, opts, minAttr, maxAttr, passwordField,
                    alertMsg, awaits >>

\* ------------------------------------------------------ specifications

\* The page as loaded, nothing called yet.
InitPage(cryptos, mins, maxs) ==
    /\ crypto \in cryptos
    /\ entry = "none"
    /\ arg = Undefined
    /\ phase = "idle"
    /\ word = 0
    /\ redraws = 0
    /\ consumed = FALSE
    /\ length = 0
    /\ pools = << >>
    /\ result = << >>
    /\ i = 0
    /\ ret = Undefined
    /\ error = NoError
    /\ lengthValue = 0
    /\ opts = NoOptions
    /\ minAttr \in mins
    /\ maxAttr \in maxs
    /\ passwordField = << >>
    /\ alertMsg = NoAlert
    /\ generateBtn = [ textContent |-> GenerateLabel, disabled |-> FALSE ]
    /\ copyBtn = [ textContent |-> CopyLabel, disabled |-> FALSE ]
    /\ timers = << >>
    /\ awaits = 0

Init == InitPage(BOOLEAN, { NoAttr }, { NoAttr })

\* The words the source returns while whole passwords are generated.
SampleWords == { (k * uint32Max) \div NumSamples : k \in 0 .. NumSamples }

\* generatePassword, called directly with every length and selection.
Next ==
    \/ \E len \in 0 .. MaxLength, o \in OptionSets : CallGenerate(len, o)
    \/ Draw(SampleWords)
    \/ SourceRaises
    \/ FallbackDraw

Spec == Init /\ [][Next]_vars

\* getSecureRandomInt alone, over the whole word space.
NextRand ==
    \/ \E max \in 0 .. WordSpace : CallRand(max)
    \/ Draw(AllWords)
    \/ SourceRaises
    \/ FallbackDraw

SpecRand == Init /\ [][NextRand]_vars

\* shuffleArray alone, over the whole word space.
ShuffleItems == << "A", "a", "0", "~", "B", "b", "1", "!" >>

ShuffleInputs ==
    { SubSeq(ShuffleItems, 1, n) : n \in 0 .. MaxLength }
    \cup UNION { [ 1 .. n -> { "A", "a" } ] : n \in 0 .. MaxLength }

NextShuffle ==
    \/ \E array \in ShuffleInputs : CallShuffle(array)
    \/ Draw(AllWords)
    \/ SourceRaises
    \/ FallbackDraw

SpecShuffle == Init /\ [][NextShuffle]_vars

\* The page: both buttons, the clipboard, the timers, a source that can fail.
UILengths == { 0, 2, MaxLength }

UIOptions ==
    { NoOptions,
      [ NoOptions EXCEPT !.numbers = TRUE ],
      [ NoOptions EXCEPT !.upper = TRUE, !.lower = TRUE, !.symbols = TRUE ] }

UIWords == { 0, uint32Max }

InitUI == InitPage({ TRUE }, { NoAttr, { 1 } }, { NoAttr, { MaxLength - 1 } })

NextUI ==
    \/ \E len \in UILengths, o \in UIOptions : UserInput(len, o)
    \/ ClickGenerate
    \/ Draw(UIWords)
    \/ SourceRaises
    \/ ClickCopy
    \/ ClipboardResolves
    \/ ClipboardRejects
    \/ TimerFires

SpecUI == InitUI /\ [][NextUI]_vars

\* ================================================================ claims

Range(seq) == { seq[k] : k \in 1 .. Len(seq) }

ClassNames == { "upper", "lower", "numbers", "symbols" }

ClassChars(c) ==
    CASE c = "upper" -> Range(UPPER)
      [] c = "lower" -> Range(LOWER)
      [] c = "numbers" -> Range(NUMBERS)
      [] c = "symbols" -> Range(SYMBOLS)

Selected(o) == { c \in ClassNames : o[c] }

ValidRequest(a) ==
    Selected(a.opts) # {} /\ a.length >= Cardinality(Selected(a.opts))

GenerateCalled == entry = "generate" /\ phase \in { "returned", "thrown" }

\* C1: for every valid request and every sequence of random words,
\* generatePassword returns a string of exactly `length` characters with at
\* least one character of each selected class and none of an unselected
\* class; it never rejects a valid request.
C1_ValidPassword ==
    (GenerateCalled /\ ValidRequest(arg)) =>
        /\ phase = "thrown" => error = SourceError
        /\ phase = "returned" =>
             /\ ret.type = "string"
             /\ Len(ret.value) = arg.length
             /\ \A c \in Selected(arg.opts) :
                    \E k \in 1 .. Len(ret.value) : ret.value[k] \in ClassChars(c)
             /\ \A k \in 1 .. Len(ret.value) :
                    \E c \in Selected(arg.opts) : ret.value[k] \in ClassChars(c)

C1_Witness ==
    /\ GenerateCalled
    /\ phase = "returned"
    /\ arg.length = 4
    /\ Selected(arg.opts) = { "upper", "lower", "numbers" }
    /\ \E k \in 1 .. 4 : ret.value[k] \in ClassChars("numbers") /\ k # 3
    /\ Cardinality({ k \in 1 .. 4 : ret.value[k] \in ClassChars("upper") }) = 2

C3_TooShortFailsBeforeDraw ==
    (entry = "generate" /\ phase # "idle" /\ Selected(arg.opts) # {}
       /\ arg.length < Cardinality(Selected(arg.opts))) =>
        /\ phase = "thrown"
        /\ error = LengthError
        /\ ~consumed
        /\ result = << >>
        /\ ret = Undefined

C3_Witness ==
    /\ entry = "generate"
    /\ phase = "thrown"
    /\ error = LengthError
    /\ arg.length = 3
    /\ Cardinality(Selected(arg.opts)) = 4

RandCalled == entry = "rand" /\ phase = "returned"

\* C4: for every max > 0 any value getSecureRandomInt(max) returns lies in
\* [0, max); for max = 1 it is 0; for max = 0 the call returns 0 without
\* drawing a word.
C4_ResultInRange ==
    RandCalled =>
        /\ ret.type = "number"
        /\ arg.max > 0 => (ret.value >= 0 /\ ret.value < arg.max /\ consumed)
        /\ arg.max = 1 => ret.value = 0
        /\ arg.max = 0 => (ret.value = 0 /\ ~consumed)

C4_Witness ==
    /\ RandCalled
    /\ crypto
    /\ arg.max = 10
    /\ ret.value = 9
    /\ redraws = 1

\* C5: on the secure path every result r in [0, max) is returned for the
\* same number of word values: the accepted words split into max residue
\* classes of equal size, and a returned r comes from a word of its class.
C5_NoModuloBias ==
    (entry = "rand" /\ crypto /\ arg.max > 0) =>
        /\ (phase = "rand" /\ ~consumed) =>
             \A r \in 0 .. arg.max - 1 :
                 Cardinality(WordsFor(arg.max, r)) * arg.max
                     = Cardinality(AcceptedWords(arg.max))
        /\ (phase = "returned") => word \in WordsFor(arg.max, ret.value)

C5_Witness ==
    /\ RandCalled
    /\ crypto
    /\ arg.max = 3
    /\ WordSpace % 3 # 0
    /\ ret.value = 2
    /\ Cardinality(WordsFor(3, 2)) > 1

\* C6 as stated: a drawn word is accepted iff it is below
\* floor(W / max) * max with W the size of the word space, so when max
\* divides W every word, the largest included, is accepted at once.
C6_BoundFromWordSpace ==
    (entry = "rand" /\ crypto /\ arg.max > 0 /\ consumed /\ error = NoError) =>
        LET specBound == (WordSpace \div arg.max) * arg.max IN
        /\ phase = "returned" => word < specBound
        /\ phase = "rand" => word >= specBound

\* C9 as stated: for every max from 1 up to and including the size of the
\* word space the accepted words are non-empty and more than half of the
\* word space, so the rejection loop ends.
C9_AcceptedMoreThanHalf ==
    (entry = "rand" /\ crypto /\ phase = "rand" /\ ~consumed
       /\ arg.max >= 1 /\ arg.max <= WordSpace) =>
        /\ AcceptedWords(arg.max) # {}
        /\ 2 * Cardinality(AcceptedWords(arg.max)) > WordSpace

Count(seq, x) == Cardinality({ k \in 1 .. Len(seq) : seq[k] = x })

IsPermutationOf(a, b) ==
    /\ Len(a) = Len(b)
    /\ \A x \in Range(a) \cup Range(b) : Count(a, x) = Count(b, x)

Distinct(seq) == Cardinality(Range(seq)) = Len(seq)

RECURSIVE Factorial(_)
Factorial(n) == IF n <= 1 THEN 1 ELSE n * Factorial(n - 1)

\* The draw sequences (j for i = n - 1, ..., j for i = 1) a shuffle of
\* array can see.
DrawSeqs(array) ==
    LET n == Len(array) IN
    { js \in [ 1 .. n - 1 -> 0 .. n ] :
        \A k \in 1 .. n - 1 : js[k] < ShuffleMax(array, n - k) }

\* C7: shuffleArray walks i from the last index down to 1, draws
\* j = getSecureRandomInt(i + 1), every j in 0 .. i being possible, and swaps
\* i and j; what it returns is a permutation of its input, and for n
\* distinct elements there are n! draw sequences, exactly one of which
\* gives the returned permutation.
C7_FisherYates ==
    (entry = "shuffle") =>
        /\ phase = "shuffle" =>
             /\ i >= 1 /\ i <= Len(arg.array) - 1
             /\ PendingMax = i + 1
             /\ IsPermutationOf(result, arg.array)
             /\ crypto =>
                  \A j \in 0 .. i :
                      ENABLED (Draw(AllWords) /\ result' = Swap(result, i, j))
        /\ phase = "returned" =>
             /\ ret.type = "array"
             /\ IsPermutationOf(ret.value, arg.array)
             /\ Distinct(arg.array) =>
                  /\ Cardinality(DrawSeqs(arg.array)) = Factorial(Len(arg.array))
                  /\ Cardinality({ js \in DrawSeqs(arg.array) :
                         shuffleArray(arg.array, js) = ret.value }) = 1

C7_Witness ==
    /\ entry = "shuffle"
    /\ phase = "returned"
    /\ arg.array = << "A", "a", "0", "~" >>
    /\ ret.value = << "~", "0", "a", "A" >>

\* C8: when the secure source throws on a draw, the draw is not retried
\* and the failure leaves generatePassword: no password is returned, and the
\* click handler alerts and leaves the password field and the button as they
\* were.
C8_SourceFailurePropagates ==
    [][ (error' = SourceError /\ error # SourceError) =>
          /\ phase' \notin DrawPhases
          /\ ret' = Undefined
          /\ passwordField' = passwordField
          /\ generateBtn' = generateBtn
          /\ timers' = timers
          /\ entry' = "click" => (phase' = "idle" /\ alertMsg' = SourceError)
      ]_vars

C8_Witness ==
    /\ entry = "click"
    /\ error = SourceError
    /\ alertMsg = SourceError
    /\ phase = "idle"
    /\ passwordField # << >>
    /\ Len(result) = arg.length
    /\ arg.length > 0
    /\ passwordField # join(result)
    /\ Len(passwordField) # Len(result)

\* C10 as stated: once no showTemporaryMessage timer is pending, each
\* button is enabled and shows the label it had before the first click.
C10_MessageIsTemporary ==
    (timers = << >> /\ NoCallRunning) =>
        /\ generateBtn = [ textContent |-> GenerateLabel, disabled |-> FALSE ]
        /\ copyBtn = [ textContent |-> CopyLabel, disabled |-> FALSE ]

====
